---- MODULE Spec2Model ----
(***************************************************************************)
(* Trading journal: the trade repository (src/lib/trades.ts), the trade    *)
(* form with its two derivation effects (src/app/trades/TradeForm.tsx) and *)
(* the trades page (src/unnamed/part_001), over the row type of            *)
(* src/unnamed/part_000.                                                   *)
(*                                                                         *)
(* Values.  A nullable column (number | null, string | null) is a sequence *)
(* of length 0 (null) or 1 (the value).  trade_date is nullable in the     *)
(* same way: the empty sequence is the empty string '' a cleared date      *)
(* input yields, <<n>> is the ISO date of day n.  Prices and amounts are   *)
(* integers; a quotient (r_multiple, winRate, avgRMultiple) is an exact    *)
(* fraction [n, d] in lowest terms with d > 0, so that two quotients are   *)
(* equal exactly when the two JavaScript numbers are for the small         *)
(* operands used here.                                                     *)
(***************************************************************************)
EXTENDS Integers, Sequences, FiniteSets, TLC

\* ------------------------------------------------------------------ bounds
MaxVal == 2        \* largest price / amount typed into the form
MaxId == 3         \* ids the table hands out: 1..MaxId
MaxEdits == 1      \* field edits made in the form over one run
MaxRefresh == 2    \* refreshData calls started over one run
MaxLogout == 1     \* signOut calls awaited at one time

\* ------------------------------------------------------------------ values
Null == <<>>
Some(v) == <<v>>

RECURSIVE GCD(_, _)
GCD(a, b) == IF b = 0 THEN a ELSE GCD(b, a % b)

Abs(x) == IF x < 0 THEN 0 - x ELSE x

\* The number n/d (d # 0) in lowest terms, sign in the numerator.
Rat(n, d) ==
    LET g == GCD(Abs(n), Abs(d))
        s == IF d < 0 THEN 0 - 1 ELSE 1
    IN  [n |-> (s * n) \div g, d |-> (s * d) \div g]

RatOfInt(i) == [n |-> i, d |-> 1]
RatAdd(p, q) == Rat(p.n * q.d + q.n * p.d, p.d * q.d)
RatDivInt(p, k) == Rat(p.n, p.d * k)
RatMulInt(p, k) == Rat(p.n * k, p.d)

\* JavaScript's  x || dflt  on a nullable number: null and 0 are falsy.
OrNum(x, dflt) == IF x = Null \/ x = Some(0) THEN dflt ELSE x
\* JavaScript's  x || dflt  on a nullable quotient.
OrRat(x, dflt) == IF x = Null \/ x[1].n = 0 THEN dflt ELSE x

Users == {"u1", "u2"}
Today == Some(2)

\* ------------------------------------------------------------------- state
VARIABLES
    store,          \* the trades table: id -> row, for the ids that exist
    nextId,         \* the next id / trade_number the table assigns
    lastOp,         \* the last step: name, arguments, outcome, state before it
    isModalOpen,    \* page: the add/edit modal is shown
    selectedTrade,  \* page: Null (add) or Some(row) (edit), the form's trade prop
    formData,       \* form: the draft
    pending,        \* form: the effects scheduled by the last render
    loading,        \* form: a submit is running
    saves,          \* the store calls of handleSubmit that are awaited
    formError,      \* form: the inline error message, Null when none
    edits,          \* field edits made so far
    trades,         \* page: the displayed list
    stats,          \* page: the displayed stats, Null before the first load
    pageError,      \* page: the error that replaces the page, Null when none
    alertMsg,       \* page: the last alert() shown, Null when none
    inflight,       \* page: the refreshData calls awaiting their responses
    started,        \* refreshData calls started so far
    deletes,        \* page: the deleteTrade calls of handleDeleteTrade that are awaited
    pageLoading,    \* page: loading, true until loadData has ended
    logouts,        \* page: the signOut calls of handleLogout that are awaited
    route           \* the router's path

formVars == <<isModalOpen, selectedTrade, formData, pending, loading, saves,
              formError, edits>>
pageVars == <<trades, stats, pageError, alertMsg, inflight, started, deletes,
              pageLoading, logouts, route>>
vars == <<store, nextId, lastOp, isModalOpen, selectedTrade, formData, pending,
          loading, saves, formError, edits, trades, stats, pageError, alertMsg,
          inflight, started, deletes, pageLoading, logouts, route>>

\* --------------------------------------------------------------- the table
\* The ids of S in ascending order.
RECURSIVE SortedIds(_)
SortedIds(S) ==
    IF S = {} THEN <<>>
    ELSE LET m == CHOOSE x \in S : \A y \in S : x <= y
         IN  <<m>> \o SortedIds(S \ {m})

\* select(...) with an eq filter on column: the matching rows, in id order.
RowsWhere(column, value) ==
    LET ids == SortedIds({i \in DOMAIN store : store[i][column] = value})
    IN  [k \in 1..Len(ids) |-> store[ids[k]]]

\* data.reduce((sum, t) => sum + (t[column] || 0), 0) on an amount column.
RECURSIVE ReduceSum(_, _, _)
ReduceSum(data, column, sum) ==
    IF data = <<>> THEN sum
    ELSE ReduceSum(Tail(data), column, sum + OrNum(Head(data)[column], Some(0))[1])

\* data.reduce((sum, t) => sum + (t.r_multiple || 0), 0)
RECURSIVE ReduceSumR(_, _)
ReduceSumR(data, sum) ==
    IF data = <<>> THEN sum
    ELSE ReduceSumR(Tail(data), RatAdd(sum, OrRat(Head(data).r_multiple, Some(RatOfInt(0)))[1]))

\* data.filter(t => t[column] && t[column] > 0).length
PositiveLen(data, column) ==
    Len(SelectSeq(data, LAMBDA t : t[column] # Null /\ t[column][1] > 0))

\* data.filter(t => t.r_multiple !== null).length
WithRLen(data) == Len(SelectSeq(data, LAMBDA t : t.r_multiple # Null))

DateKey(d) == IF d = Null THEN 0 ELSE d[1]

\* order('trade_date', {ascending: false}): a stable insertion sort.
RECURSIVE OrderByDateDesc(_)
InsertDesc(row, sorted) ==
    LET before == SelectSeq(sorted, LAMBDA r : DateKey(r.trade_date) >= DateKey(row.trade_date))
        after == SelectSeq(sorted, LAMBDA r : DateKey(r.trade_date) < DateKey(row.trade_date))
    IN  before \o <<row>> \o after
OrderByDateDesc(rows) ==
    IF rows = <<>> THEN <<>>
    ELSE InsertDesc(rows[Len(rows)], OrderByDateDesc(SubSeq(rows, 1, Len(rows) - 1)))

\* What a repository function hands back: it returns data, or throws the
\* error of the response; st and nid are the table after the call.
Returned(data, st, nid) == [ok |-> TRUE, error |-> "none", data |-> Some(data), store |-> st, nextId |-> nid]
Threw(err, st, nid) == [ok |-> FALSE, error |-> err, data |-> Null, store |-> st, nextId |-> nid]

\* --------------------------------------------------------------- trades.ts
\* fail: the request does not get through (transport or backend failure).
getTrades(userId, fail) ==
    IF fail THEN Threw("StoreError", store, nextId)
    ELSE Returned(OrderByDateDesc(RowsWhere("user_id", userId)), store, nextId)

\* A getTrade that hands back whatever the response holds, error or not.
getTradeUnchecked(id, fail) ==
    LET rows == RowsWhere("id", id)
    IN  IF fail THEN Threw("StoreError", store, nextId)
        ELSE Returned(rows, store, nextId)

\* .single() answers with an error unless exactly one row matches.
getTrade(id, fail) ==
    LET rows == RowsWhere("id", id)
    IN  IF fail THEN Threw("StoreError", store, nextId)
        ELSE IF Len(rows) # 1 THEN Threw("NotFound", store, nextId)
        ELSE Returned(rows[1], store, nextId)

\* insert(trade).select().single(): the table assigns id, created_at and
\* trade_number and answers with the stored row.
createTrade(trade, fail) ==
    LET row == [f \in DOMAIN trade \cup {"id", "created_at", "trade_number"} |->
                    IF f \in {"id", "created_at", "trade_number"} THEN nextId ELSE trade[f]]
    IN  IF fail THEN Threw("StoreError", store, nextId)
        ELSE Returned(row, [i \in DOMAIN store \cup {nextId} |->
                                IF i = nextId THEN row ELSE store[i]], nextId + 1)

\* An updateTrade that replaces the row: a column updates does not name is
\* set to null.
updateTradeReplace(id, updates, fail) ==
    LET hit == {i \in DOMAIN store : store[i].id = id}
        replaced(r) == [f \in DOMAIN r |->
                          IF f \in DOMAIN updates THEN updates[f]
                          ELSE IF f \in {"notes", "stop_loss", "risk"} THEN Null ELSE r[f]]
        st == [i \in DOMAIN store |-> IF i \in hit THEN replaced(store[i]) ELSE store[i]]
    IN  IF fail THEN Threw("StoreError", store, nextId)
        ELSE IF Cardinality(hit) # 1 THEN Threw("NotFound", store, nextId)
        ELSE Returned(st[CHOOSE i \in hit : TRUE], st, nextId)

\* update(updates).eq('id', id).select().single(): the columns named in
\* updates are set on the matching row; no matching row is an error of single().
updateTrade(id, updates, fail) ==
    LET hit == {i \in DOMAIN store : store[i].id = id}
        merged(r) == [f \in DOMAIN r |-> IF f \in DOMAIN updates THEN updates[f] ELSE r[f]]
        st == [i \in DOMAIN store |-> IF i \in hit THEN merged(store[i]) ELSE store[i]]
    IN  IF fail THEN Threw("StoreError", store, nextId)
        ELSE IF Cardinality(hit) # 1 THEN Threw("NotFound", store, nextId)
        ELSE Returned(st[CHOOSE i \in hit : TRUE], st, nextId)

\* A deleteTrade without its eq filter: every row goes.
deleteTradeAll(id, fail) ==
    IF fail THEN Threw("StoreError", store, nextId)
    ELSE Returned("void", [i \in {} |-> Null], nextId)

\* delete().eq('id', id): no single(), so no matching row is no error.
deleteTrade(id, fail) ==
    LET keep == {i \in DOMAIN store : store[i].id # id}
    IN  IF fail THEN Threw("StoreError", store, nextId)
        ELSE Returned("void", [i \in keep |-> store[i]], nextId)

\* Lines 107-109 of getTradeStats.
totalTradesOf(data) == Len(data)
winnersOf(data) == PositiveLen(data, "realised_win")
losersOf(data) == PositiveLen(data, "realised_loss")

\* A win rate over the decided trades only, winners + losers.
winRateOfDecided(data) ==
    IF winnersOf(data) + losersOf(data) > 0
    THEN RatMulInt(Rat(winnersOf(data), winnersOf(data) + losersOf(data)), 100)
    ELSE RatOfInt(0)

\* Line 110 of getTradeStats.
winRateOf(data) ==
    IF totalTradesOf(data) > 0
    THEN RatMulInt(Rat(winnersOf(data), totalTradesOf(data)), 100)
    ELSE RatOfInt(0)

\* A mean of r_multiple that divides by the number of all rows.
avgRMultipleOverAll(data) ==
    IF WithRLen(data) > 0
    THEN RatDivInt(ReduceSumR(data, RatOfInt(0)), Len(data))
    ELSE RatOfInt(0)

\* Lines 115-117 of getTradeStats.
avgRMultipleOf(data) ==
    IF WithRLen(data) > 0
    THEN RatDivInt(ReduceSumR(data, RatOfInt(0)), WithRLen(data))
    ELSE RatOfInt(0)

getTradeStats(userId, fail) ==
    LET data == RowsWhere("user_id", userId)
        totalTrades == totalTradesOf(data)
        winners == winnersOf(data)
        losers == losersOf(data)
        winRate == winRateOf(data)
        totalProfit == ReduceSum(data, "realised_win", 0)
        totalLoss == ReduceSum(data, "realised_loss", 0)
        avgRMultiple == avgRMultipleOf(data)
    IN  IF fail THEN Threw("StoreError", store, nextId)
        ELSE Returned([totalTrades |-> totalTrades, winners |-> winners, losers |-> losers,
                       winRate |-> winRate, totalProfit |-> totalProfit,
                       totalLoss |-> totalLoss, netPnL |-> totalProfit - totalLoss,
                       avgRMultiple |-> avgRMultiple], store, nextId)

\* ----------------------------------------------------------- TradeForm.tsx
\* The signed-in user of the page (user.id, passed to the form as userId).
User == "u1"

\* useState initialiser of formData: the trade's values when editing, the
\* blank draft when adding; every  x || dflt  turns a falsy x into dflt.
initialFormData(trade, userId) ==
    IF trade = Null
    THEN [user_id |-> userId, trade_date |-> Today, coin |-> "", direction |-> "long",
          avg_entry |-> 0, stop_loss |-> Null, risk |-> Null, realised_loss |-> Null,
          realised_win |-> Null, r_multiple |-> Null, notes |-> Null]
    ELSE LET t == trade[1]
         IN  [user_id |-> userId,
              trade_date |-> IF t.trade_date = Null THEN Today ELSE t.trade_date,
              coin |-> t.coin,
              direction |-> t.direction,
              avg_entry |-> t.avg_entry,
              stop_loss |-> OrNum(t.stop_loss, Null),
              risk |-> OrNum(t.risk, Null),
              realised_loss |-> OrNum(t.realised_loss, Null),
              realised_win |-> OrNum(t.realised_win, Null),
              r_multiple |-> OrRat(t.r_multiple, Null),
              notes |-> IF t.notes = Some("") THEN Null ELSE t.notes]

\* A direction effect that takes entry = stop loss for a long.
directionEffectGeq(fd, prev) ==
    LET entry == fd.avg_entry
        stopLoss == fd.stop_loss
    IN  IF entry > 0 /\ stopLoss # Null /\ stopLoss[1] > 0
        THEN LET detectedDirection == IF entry >= stopLoss[1] THEN "long" ELSE "short"
             IN  IF fd.direction # detectedDirection
                 THEN [prev EXCEPT !.direction = detectedDirection]
                 ELSE prev
        ELSE prev

\* The direction effect: fd is the draft of the render the effect closed
\* over, prev the state its updater is applied to.
directionEffect(fd, prev) ==
    LET entry == fd.avg_entry
        stopLoss == fd.stop_loss
    IN  IF entry > 0 /\ stopLoss # Null /\ stopLoss[1] > 0
        THEN LET detectedDirection == IF entry > stopLoss[1] THEN "long" ELSE "short"
             IN  IF fd.direction # detectedDirection
                 THEN [prev EXCEPT !.direction = detectedDirection]
                 ELSE prev
        ELSE prev

\* An r_multiple effect that looks at the loss before the win.
rMultipleEffectLossFirst(fd, prev) ==
    LET risk == fd.risk
        realisedWin == fd.realised_win
        realisedLoss == fd.realised_loss
    IN  IF risk # Null /\ risk[1] > 0
        THEN LET rMultiple ==
                     IF realisedLoss # Null /\ realisedLoss[1] > 0
                     THEN Some(Rat(0 - realisedLoss[1], risk[1]))
                     ELSE IF realisedWin # Null /\ realisedWin[1] > 0
                     THEN Some(Rat(realisedWin[1], risk[1]))
                     ELSE Null
             IN  IF fd.r_multiple # rMultiple
                 THEN [prev EXCEPT !.r_multiple = rMultiple]
                 ELSE prev
        ELSE IF fd.r_multiple # Null
        THEN [prev EXCEPT !.r_multiple = Null]
        ELSE prev

\* An r_multiple effect without the branch that clears a value when risk is
\* not set.
rMultipleEffectNoClear(fd, prev) ==
    LET risk == fd.risk
        realisedWin == fd.realised_win
        realisedLoss == fd.realised_loss
    IN  IF risk # Null /\ risk[1] > 0
        THEN LET rMultiple ==
                     IF realisedWin # Null /\ realisedWin[1] > 0
                     THEN Some(Rat(realisedWin[1], risk[1]))
                     ELSE IF realisedLoss # Null /\ realisedLoss[1] > 0
                     THEN Some(Rat(0 - realisedLoss[1], risk[1]))
                     ELSE Null
             IN  IF fd.r_multiple # rMultiple
                 THEN [prev EXCEPT !.r_multiple = rMultiple]
                 ELSE prev
        ELSE prev

\* An r_multiple effect that keeps the value it has when neither a win nor a
\* loss is recorded.
rMultipleEffectKeepStale(fd, prev) ==
    LET risk == fd.risk
        realisedWin == fd.realised_win
        realisedLoss == fd.realised_loss
    IN  IF risk # Null /\ risk[1] > 0
        THEN LET rMultiple ==
                     IF realisedWin # Null /\ realisedWin[1] > 0
                     THEN Some(Rat(realisedWin[1], risk[1]))
                     ELSE IF realisedLoss # Null /\ realisedLoss[1] > 0
                     THEN Some(Rat(0 - realisedLoss[1], risk[1]))
                     ELSE fd.r_multiple
             IN  IF fd.r_multiple # rMultiple
                 THEN [prev EXCEPT !.r_multiple = rMultiple]
                 ELSE prev
        ELSE IF fd.r_multiple # Null
        THEN [prev EXCEPT !.r_multiple = Null]
        ELSE prev

\* The r_multiple effect, same parameters.
rMultipleEffect(fd, prev) ==
    LET risk == fd.risk
        realisedWin == fd.realised_win
        realisedLoss == fd.realised_loss
    IN  IF risk # Null /\ risk[1] > 0
        THEN LET rMultiple ==
                     IF realisedWin # Null /\ realisedWin[1] > 0
                     THEN Some(Rat(realisedWin[1], risk[1]))
                     ELSE IF realisedLoss # Null /\ realisedLoss[1] > 0
                     THEN Some(Rat(0 - realisedLoss[1], risk[1]))
                     ELSE Null
             IN  IF fd.r_multiple # rMultiple
                 THEN [prev EXCEPT !.r_multiple = rMultiple]
                 ELSE prev
        ELSE IF fd.r_multiple # Null
        THEN [prev EXCEPT !.r_multiple = Null]
        ELSE prev

\* Dependency arrays where the r_multiple effect does not list realised_win.
DepsWithoutWin(effect) ==
    IF effect = "direction" THEN {"avg_entry", "stop_loss"}
    ELSE {"risk", "realised_loss"}

\* Dependency arrays that also list the field each effect writes.
DepsWithDerived(effect) ==
    IF effect = "direction" THEN {"avg_entry", "stop_loss", "direction"}
    ELSE {"risk", "realised_win", "realised_loss", "r_multiple"}

\* The dependency arrays of the two effects.
Deps(effect) ==
    IF effect = "direction" THEN {"avg_entry", "stop_loss"}
    ELSE {"risk", "realised_win", "realised_loss"}

\* The effects a render schedules: those with a dependency that changed.
Scheduled(old, new) ==
    {e \in {"direction", "r_multiple"} : \E f \in Deps(e) : old[f] # new[f]}

\* What the text of a number input can be: empty (Null) or a number.
Typed == {Null} \cup {Some(v) : v \in (0 - 1)..MaxVal}

\* The onChange handlers: the value each input passes to updateField.
FieldValues(field) ==
    CASE field = "trade_date" -> {Null, Some(1)}
      [] field = "coin" -> {"", "BTC"}
      [] field = "avg_entry" -> {IF t = Null THEN 0 ELSE t[1] : t \in Typed}
      [] field \in {"stop_loss", "risk", "realised_win", "realised_loss"} -> Typed
      [] field = "notes" -> {Null, Some("x")}

Fields == {"trade_date", "coin", "avg_entry", "stop_loss", "risk", "realised_win",
           "realised_loss", "notes"}

\* What lastOp keeps of the state before a step: the draft for a step of the
\* form, the table for a call of the repository, the table and what the page
\* shows for a handler of the page.
BeforeForm == Some([formData |-> formData, pending |-> pending])
BeforeStore == Some([store |-> store])
BeforeSubmit ==
    Some([formData |-> formData, formError |-> formError, loading |-> loading,
          isModalOpen |-> isModalOpen, started |-> started])
BeforePage ==
    Some([store |-> store, trades |-> trades, stats |-> stats, alertMsg |-> alertMsg,
          pageError |-> pageError, started |-> started])

\* lastOp in the initial state.
NoOp == [op |-> "none", id |-> 0, input |-> Null, ok |-> TRUE, error |-> "none",
         data |-> Null, before |-> Null]

\* lastOp after a step that calls no repository function.
Did(op, before) == [NoOp EXCEPT !.op = op, !.before = before]

\* lastOp after the repository call op(id, input) that ended as res.
Called(op, id, input, res, before) ==
    [op |-> op, id |-> id, input |-> input, ok |-> res.ok, error |-> res.error,
     data |-> res.data, before |-> before]

\* The page renders its table and buttons: neither the loading view nor the
\* error view has replaced them.  The modal and the form are rendered only
\* then.
Shown == ~pageLoading /\ pageError = Null

\* The response of one request.
Answer(res) == Some([ok |-> res.ok, error |-> res.error, data |-> res.data])

\* The number that tells a new awaited call from those in S.
NextTag(S) ==
    CHOOSE n \in 1..(Cardinality(S) + 1) :
        /\ \A r \in S : r.n # n
        /\ \A m \in 1..(n - 1) : \E r \in S : r.n = m

\* The awaited store calls whose handler, when it continues, starts a refresh
\* if the call returned.
Outstanding == started + Cardinality(saves) + Cardinality(deletes)

\* The form unmounts: its state is gone, and the setError / setLoading of a
\* handleSubmit that is still awaiting will reach no component.
FormUnmounts ==
    /\ formData' = Null
    /\ pending' = {}
    /\ loading' = FALSE
    /\ formError' = Null

\* The awaited saves once their form has unmounted.
Orphaned(S) == {[sv EXCEPT !.live = FALSE] : sv \in S}

\* handleAddTrade / handleEditTrade: setSelectedTrade, setIsModalOpen(true).
\* With the modal closed the form mounts, its draft made from the trade, and
\* both effects run after the first render.  With the modal open (its overlay
\* stops the pointer, not the keyboard) the mounted form only gets another
\* trade prop: its state stays and no dependency of an effect changes.
OpenModal(trade) ==
    /\ Shown /\ pending = {}
    /\ isModalOpen' = TRUE
    /\ selectedTrade' = trade
    /\ IF isModalOpen
       THEN UNCHANGED <<formData, pending, loading, formError>>
       ELSE /\ formData' = initialFormData(trade, User)
            /\ pending' = {"direction", "r_multiple"}
            /\ loading' = FALSE
            /\ formError' = Null
    /\ lastOp' = Did("openModal", Null)
    /\ UNCHANGED <<saves, edits, store, nextId, pageVars>>

handleAddTrade == OpenModal(Null)

handleEditTrade == \E k \in 1..Len(trades) : OpenModal(Some(trades[k]))

\* handleCloseModal from the form's X button or the modal's backdrop, neither
\* of which is disabled while a submit is awaited: the modal closes, the form
\* unmounts.
handleCloseModal ==
    /\ Shown /\ isModalOpen /\ pending = {}
    /\ isModalOpen' = FALSE
    /\ selectedTrade' = Null
    /\ FormUnmounts
    /\ saves' = Orphaned(saves)
    /\ lastOp' = Did("handleCloseModal", BeforeForm)
    /\ UNCHANGED <<edits, store, nextId, pageVars>>

\* updateField from an input's onChange, and the render it causes.
updateField(field, value) ==
    /\ Shown /\ isModalOpen /\ pending = {} /\ edits < MaxEdits
    /\ formData[field] # value
    /\ formData' = [formData EXCEPT ![field] = value]
    /\ pending' = Scheduled(formData, formData')
    /\ edits' = edits + 1
    /\ lastOp' = Did("updateField", BeforeForm)
    /\ UNCHANGED <<isModalOpen, selectedTrade, loading, saves, formError, store, nextId,
                   pageVars>>

EditField == \E field \in Fields : \E value \in FieldValues(field) : updateField(field, value)

\* The effects of one commit run in source order, the direction effect first.
\* The render that an effect's setFormData causes schedules the effects whose
\* dependencies it changed.
RunDirectionEffect ==
    /\ formData # Null /\ "direction" \in pending
    /\ formData' = directionEffect(formData, formData)
    /\ pending' = (pending \ {"direction"}) \cup Scheduled(formData, formData')
    /\ lastOp' = Did("directionEffect", BeforeForm)
    /\ UNCHANGED <<isModalOpen, selectedTrade, loading, saves, formError, edits, store,
                   nextId, pageVars>>

RunRMultipleEffect ==
    /\ formData # Null /\ pending = {"r_multiple"}
    /\ formData' = rMultipleEffect(formData, formData)
    /\ pending' = Scheduled(formData, formData')
    /\ lastOp' = Did("rMultipleEffect", BeforeForm)
    /\ UNCHANGED <<isModalOpen, selectedTrade, loading, saves, formError, edits, store,
                   nextId, pageVars>>

\* refreshData up to its await: both requests are sent.  user is set whenever
\* a caller of refreshData can run.
refreshDataStart ==
    /\ inflight' = inflight \cup {[n |-> started + 1, t |-> Null, s |-> Null]}
    /\ started' = started + 1

\* The required attribute of the date, coin and entry inputs: the browser
\* raises no submit event while one of them is empty.  The entry input shows
\* formData.avg_entry, a number, so it is never empty.
RequiredFilled == formData.trade_date # Null /\ formData.coin # ""

\* The store call of handleSubmit's try block: updateTrade when the form has a
\* trade, createTrade otherwise, awaited once.
saveTrade(selected, draft, fail) ==
    IF selected # Null
    THEN updateTrade(selected[1].id, draft, fail)
    ELSE createTrade(draft, fail)

\* handleSubmit, from the submit event to its await: the submit button is
\* disabled while loading, and the call carries the rendered draft and the
\* form's trade.  live tells that the form that made the call is mounted.
handleSubmit ==
    /\ Shown /\ isModalOpen /\ ~loading /\ pending = {}
    /\ RequiredFilled
    /\ Outstanding < MaxRefresh
    /\ selectedTrade = Null =>
           nextId + Cardinality({sv \in saves : sv.trade = Null /\ sv.answer = Null}) <= MaxId
    /\ loading' = TRUE
    /\ formError' = Null
    /\ saves' = saves \cup {[n |-> NextTag(saves), trade |-> selectedTrade,
                             draft |-> formData, live |-> TRUE, answer |-> Null]}
    /\ lastOp' = Did("handleSubmit", BeforeForm)
    /\ UNCHANGED <<isModalOpen, selectedTrade, formData, pending, edits, store, nextId, pageVars>>

\* The table executes an awaited save and answers it; handleSubmit is still
\* awaiting.
ServeSave ==
    \E sv \in saves : \E fail \in BOOLEAN :
        LET res == saveTrade(sv.trade, sv.draft, fail)
        IN  /\ sv.answer = Null
            /\ store' = res.store
            /\ nextId' = res.nextId
            /\ saves' = (saves \ {sv}) \cup {[sv EXCEPT !.answer = Answer(res)]}
            /\ lastOp' = Called(IF sv.trade # Null THEN "updateTrade" ELSE "createTrade",
                                IF sv.trade # Null THEN sv.trade[1].id ELSE 0,
                                Some(sv.draft), res, BeforeStore)
            /\ UNCHANGED <<isModalOpen, selectedTrade, formData, pending, loading, formError,
                           edits, pageVars>>

\* handleSubmit from the end of its await to the end of its finally block.
\* After a call that returned: onSuccess() (the page's handleFormSuccess,
\* which starts a refresh without awaiting it) and onClose() (the page's
\* handleCloseModal, which closes whatever modal is open).  After one that
\* threw: setError, and setLoading(false) after both, which change the form
\* that made the call if it is still mounted and nothing otherwise.
handleSubmitSettle ==
    \E sv \in saves :
        LET a == sv.answer[1]
            rest == saves \ {sv}
        IN  /\ sv.answer # Null
            /\ lastOp' = Called("handleSubmitSettle", sv.n, Some([live |-> sv.live]), a,
                                BeforeSubmit)
            /\ IF a.ok
               THEN /\ refreshDataStart
                    /\ isModalOpen' = FALSE
                    /\ selectedTrade' = Null
                    /\ FormUnmounts
                    /\ saves' = Orphaned(rest)
               ELSE /\ saves' = rest
                    /\ IF sv.live
                       THEN /\ formError' = Some(a.error)
                            /\ loading' = FALSE
                       ELSE UNCHANGED <<formError, loading>>
                    /\ UNCHANGED <<isModalOpen, selectedTrade, formData, pending, inflight,
                                   started>>
            /\ UNCHANGED <<edits, store, nextId, trades, stats, pageError, alertMsg, deletes,
                           pageLoading, logouts, route>>

\* -------------------------------------------------- the trades page (part_001)
\* loadData, the effect of the page's mount: no user redirects to /login and
\* leaves the loading view; otherwise both reads, the list and the stats on
\* success or the error on a failure, and the end of loading.  No handler can
\* run before it has ended.
loadData ==
    /\ pageLoading /\ route = "/trades"
    /\ \E signedIn \in BOOLEAN : \E failTrades \in BOOLEAN : \E failStats \in BOOLEAN :
        LET t == getTrades(User, failTrades)
            s == getTradeStats(User, failStats)
        IN  /\ lastOp' = Did("loadData", Null)
            /\ IF ~signedIn
               THEN /\ route' = "/login"
                    /\ UNCHANGED <<trades, stats, pageError, pageLoading>>
               ELSE /\ pageLoading' = FALSE
                    /\ UNCHANGED route
                    /\ IF t.ok /\ s.ok
                       THEN /\ trades' = t.data[1]
                            /\ stats' = s.data
                            /\ UNCHANGED pageError
                       ELSE /\ pageError' = Some(IF ~t.ok THEN t.error ELSE s.error)
                            /\ UNCHANGED <<trades, stats>>
    /\ UNCHANGED <<store, nextId, formVars, alertMsg, inflight, started, deletes, logouts>>

\* handleLogout up to its await: signOut is called.
handleLogout ==
    /\ Shown /\ pending = {}
    /\ logouts < MaxLogout
    /\ logouts' = logouts + 1
    /\ lastOp' = Did("handleLogout", Null)
    /\ UNCHANGED <<store, nextId, formVars, trades, stats, pageError, alertMsg, inflight,
                   started, deletes, pageLoading, route>>

\* handleLogout after its await: router.push('/login').
handleLogoutSettle ==
    /\ logouts > 0
    /\ logouts' = logouts - 1
    /\ route' = "/login"
    /\ lastOp' = Did("handleLogoutSettle", Null)
    /\ UNCHANGED <<store, nextId, formVars, trades, stats, pageError, alertMsg, inflight,
                   started, deletes, pageLoading>>

\* handleDeleteTrade on a displayed row, the confirm() accepted, up to its
\* await: the request is sent.
handleDeleteTrade(trade) ==
    /\ Shown /\ pending = {}
    /\ Outstanding < MaxRefresh
    /\ deletes' = deletes \cup {[n |-> NextTag(deletes), id |-> trade.id, answer |-> Null]}
    /\ lastOp' = [Did("handleDeleteTrade", Null) EXCEPT !.id = trade.id]
    /\ UNCHANGED <<store, nextId, formVars, trades, stats, pageError, alertMsg, inflight,
                   started, pageLoading, logouts, route>>

DeleteClick == \E k \in 1..Len(trades) : handleDeleteTrade(trades[k])

\* The table executes an awaited delete and answers it.
ServeDelete ==
    \E d \in deletes : \E fail \in BOOLEAN :
        LET res == deleteTrade(d.id, fail)
        IN  /\ d.answer = Null
            /\ store' = res.store
            /\ nextId' = res.nextId
            /\ deletes' = (deletes \ {d}) \cup {[d EXCEPT !.answer = Answer(res)]}
            /\ lastOp' = Called("deleteTrade", d.id, Null, res, BeforeStore)
            /\ UNCHANGED <<formVars, trades, stats, pageError, alertMsg, inflight, started,
                           pageLoading, logouts, route>>

\* handleDeleteTrade after its await: refreshData when deleteTrade returned,
\* alert when it threw.
handleDeleteSettle ==
    \E d \in deletes :
        LET a == d.answer[1]
        IN  /\ d.answer # Null
            /\ deletes' = deletes \ {d}
            /\ lastOp' = Called("handleDeleteSettle", d.id, Null, a, BeforePage)
            /\ IF a.ok
               THEN /\ refreshDataStart
                    /\ UNCHANGED alertMsg
               ELSE /\ alertMsg' = Some(a.error)
                    /\ UNCHANGED <<inflight, started>>
            /\ UNCHANGED <<store, nextId, formVars, trades, stats, pageError, pageLoading, logouts,
                           route>>

\* The table answers the getTrades request of refresh r.
ServeTrades ==
    \E r \in inflight : \E fail \in BOOLEAN :
        /\ r.t = Null
        /\ inflight' = (inflight \ {r}) \cup {[r EXCEPT !.t = Answer(getTrades(User, fail))]}
        /\ lastOp' = Did("ServeTrades", Null)
        /\ UNCHANGED <<store, nextId, formVars, trades, stats, pageError, alertMsg, started,
                       deletes, pageLoading, logouts, route>>

\* The table answers the getTradeStats request of refresh r.
ServeStats ==
    \E r \in inflight : \E fail \in BOOLEAN :
        /\ r.s = Null
        /\ inflight' = (inflight \ {r}) \cup {[r EXCEPT !.s = Answer(getTradeStats(User, fail))]}
        /\ lastOp' = Did("ServeStats", Null)
        /\ UNCHANGED <<store, nextId, formVars, trades, stats, pageError, alertMsg, started,
                       deletes, pageLoading, logouts, route>>

\* refreshData after its await, both requests answered: the list and the
\* stats are replaced by what this call read.
refreshDataResolve ==
    \E r \in inflight :
        /\ r.t # Null /\ r.s # Null /\ r.t[1].ok /\ r.s[1].ok
        /\ trades' = r.t[1].data[1]
        /\ stats' = r.s[1].data
        /\ inflight' = inflight \ {r}
        /\ lastOp' = [Did("refreshDataResolve", Null) EXCEPT !.id = r.n]
        /\ UNCHANGED <<store, nextId, formVars, pageError, alertMsg, started, deletes,
                       pageLoading, logouts, route>>

\* refreshData after its await: Promise.all rejected with the first error.
\* The error view replaces the page, so an open form unmounts; isModalOpen and
\* selectedTrade are the page's state and stay.
refreshDataReject ==
    \E r \in inflight : \E which \in {"t", "s"} :
        /\ r[which] # Null /\ ~r[which][1].ok
        /\ pageError' = Some(r[which][1].error)
        /\ inflight' = inflight \ {r}
        /\ FormUnmounts
        /\ saves' = Orphaned(saves)
        /\ lastOp' = Did("refreshDataReject", Null)
        /\ UNCHANGED <<store, nextId, isModalOpen, selectedTrade, edits, trades, stats,
                       alertMsg, started, deletes, pageLoading, logouts, route>>

\* ------------------------------------------------------------ initial state
\* Two rows of the signed-in user.  Row 2 was written with a direction and an
\* r_multiple that do not follow from its other columns, which the table
\* accepts.
InitStore ==
    1 :> [id |-> 1, created_at |-> 1, trade_number |-> 1, user_id |-> "u1",
          trade_date |-> Some(1), coin |-> "BTC", direction |-> "long", avg_entry |-> 2,
          stop_loss |-> Some(1), risk |-> Some(2), realised_loss |-> Null,
          realised_win |-> Some(1), r_multiple |-> Some(Rat(1, 2)), notes |-> Null]
    @@
    2 :> [id |-> 2, created_at |-> 2, trade_number |-> 2, user_id |-> "u1",
          trade_date |-> Some(2), coin |-> "ETH", direction |-> "long", avg_entry |-> 1,
          stop_loss |-> Some(2), risk |-> Null, realised_loss |-> Some(1),
          realised_win |-> Null, r_multiple |-> Some(Rat(0 - 1, 1)), notes |-> Some("x")]

\* The page as constructed, before loadData has run: the useState defaults,
\* the loading view, nothing awaited.
Init ==
    /\ store = InitStore
    /\ nextId = Cardinality(DOMAIN InitStore) + 1
    /\ lastOp = NoOp
    /\ isModalOpen = FALSE
    /\ selectedTrade = Null
    /\ formData = Null
    /\ pending = {}
    /\ loading = FALSE
    /\ saves = {}
    /\ formError = Null
    /\ edits = 0
    /\ trades = <<>>
    /\ stats = Null
    /\ pageError = Null
    /\ alertMsg = Null
    /\ inflight = {}
    /\ started = 0
    /\ deletes = {}
    /\ pageLoading = TRUE
    /\ logouts = 0
    /\ route = "/trades"

\* ------------------------------------------------- calls of the repository
\* The drafts handed to createTrade: one with neither a win nor a loss and
\* no r_multiple, and one of another user with a zero win and a zero
\* r_multiple.
Draft(userId, win, r) ==
    [user_id |-> userId, trade_date |-> Today, coin |-> "SOL", direction |-> "long",
     avg_entry |-> 1, stop_loss |-> Null, risk |-> Some(1), realised_loss |-> Null,
     realised_win |-> win, r_multiple |-> r, notes |-> Null]

InsertInputs ==
    {Draft("u1", Null, Null),
     Draft("u2", Some(0), Some(RatOfInt(0)))}

\* The partial updates handed to updateTrade.
UpdateInputs ==
    {[notes |-> Some("y")],
     [realised_win |-> Some(MaxVal), realised_loss |-> Null, r_multiple |-> Null]}

\* Ids handed to getTrade, updateTrade and deleteTrade: those of the rows
\* there are, of rows deleted, and of rows not created yet.
Ids == 1..MaxId

CallGetTrades ==
    \E u \in Users : \E fail \in BOOLEAN :
        /\ lastOp' = Called("getTrades", 0, Some(u), getTrades(u, fail), BeforeStore)
        /\ UNCHANGED <<store, nextId, formVars, pageVars>>

CallGetTrade ==
    \E id \in Ids : \E fail \in BOOLEAN :
        /\ lastOp' = Called("getTrade", id, Null, getTrade(id, fail), BeforeStore)
        /\ UNCHANGED <<store, nextId, formVars, pageVars>>

CallCreateTrade ==
    \E trade \in InsertInputs : \E fail \in BOOLEAN :
        LET res == createTrade(trade, fail)
        IN  /\ nextId <= MaxId
            /\ store' = res.store
            /\ nextId' = res.nextId
            /\ lastOp' = Called("createTrade", 0, Some(trade), res, BeforeStore)
            /\ UNCHANGED <<formVars, pageVars>>

CallUpdateTrade ==
    \E id \in Ids : \E updates \in UpdateInputs : \E fail \in BOOLEAN :
        LET res == updateTrade(id, updates, fail)
        IN  /\ store' = res.store
            /\ nextId' = res.nextId
            /\ lastOp' = Called("updateTrade", id, Some(updates), res, BeforeStore)
            /\ UNCHANGED <<formVars, pageVars>>

CallDeleteTrade ==
    \E id \in Ids : \E fail \in BOOLEAN :
        LET res == deleteTrade(id, fail)
        IN  /\ store' = res.store
            /\ nextId' = res.nextId
            /\ lastOp' = Called("deleteTrade", id, Null, res, BeforeStore)
            /\ UNCHANGED <<formVars, pageVars>>

CallGetTradeStats ==
    \E u \in Users : \E fail \in BOOLEAN :
        /\ lastOp' = Called("getTradeStats", 0, Some(u), getTradeStats(u, fail), BeforeStore)
        /\ UNCHANGED <<store, nextId, formVars, pageVars>>

\* The repository, called directly.
Next ==
    \/ CallGetTrades
    \/ CallGetTrade
    \/ CallCreateTrade
    \/ CallUpdateTrade
    \/ CallDeleteTrade
    \/ CallGetTradeStats

Spec == Init /\ [][Next]_vars

\* The draft: the form opened on a row or empty, re-targeted while open,
\* typed into, derived by its effects and closed.
NextDraft ==
    \/ loadData
    \/ handleAddTrade
    \/ handleEditTrade
    \/ handleCloseModal
    \/ EditField
    \/ RunDirectionEffect
    \/ RunRMultipleEffect

SpecDraft == Init /\ [][NextDraft]_vars

\* The draft typed into and submitted, up to the table's execution of the
\* save: what the records passed to createTrade and updateTrade can be.
NextSubmit ==
    \/ loadData
    \/ handleAddTrade
    \/ handleEditTrade
    \/ EditField
    \/ RunDirectionEffect
    \/ RunRMultipleEffect
    \/ handleSubmit
    \/ ServeSave

SpecSubmit == Init /\ [][NextSubmit]_vars

\* The submit from click to end: the form opened, re-targeted, submitted as
\* it is after its effects and closed at any moment, a save awaited or not.
NextForm ==
    \/ loadData
    \/ handleAddTrade
    \/ handleEditTrade
    \/ handleCloseModal
    \/ RunDirectionEffect
    \/ RunRMultipleEffect
    \/ handleSubmit
    \/ ServeSave
    \/ handleSubmitSettle

SpecForm == Init /\ [][NextForm]_vars

\* The trades page: rows deleted, the list and the stats refreshed.
NextPage ==
    \/ loadData
    \/ handleLogout
    \/ handleLogoutSettle
    \/ DeleteClick
    \/ ServeDelete
    \/ handleDeleteSettle
    \/ ServeTrades
    \/ ServeStats
    \/ refreshDataResolve
    \/ refreshDataReject

SpecPage == Init /\ [][NextPage]_vars

\* The page with its modal: rows are deleted, and edited through the form
\* (opened on a displayed row and submitted as it is after its effects).
NextApp ==
    \/ loadData
    \/ handleLogout
    \/ handleLogoutSettle
    \/ handleEditTrade
    \/ RunDirectionEffect
    \/ RunRMultipleEffect
    \/ handleSubmit
    \/ ServeSave
    \/ handleSubmitSettle
    \/ DeleteClick
    \/ ServeDelete
    \/ handleDeleteSettle
    \/ ServeTrades
    \/ ServeStats
    \/ refreshDataResolve
    \/ refreshDataReject

SpecApp == Init /\ [][NextApp]_vars

\* =================================================================== claims
\* The draft before the step lastOp records.
DraftBefore == lastOp.before[1].formData
\* The table before the step lastOp records.
StoreBefore == lastOp.before[1].store

Positive(x) == x # Null /\ x[1] > 0

\* The quotient q, a fraction [n, d], is the number a / b.
IsQuotient(q, a, b) == q.d > 0 /\ q.n * b = a * q.d

\* --- C1 -----------------------------------------------------------------
\* C1: right after the direction effect has run on a draft with avg_entry > 0
\* and stop_loss present and > 0, direction is long if and only if
\* avg_entry > stop_loss and short otherwise (so short when they are equal);
\* on every other draft the effect leaves direction as it was.
C1_DirectionDerivation ==
    lastOp.op = "directionEffect" =>
        LET b == DraftBefore
        IN  /\ formData.avg_entry = b.avg_entry /\ formData.stop_loss = b.stop_loss
            /\ IF b.avg_entry > 0 /\ Positive(b.stop_loss)
               THEN /\ formData.direction \in {"long", "short"}
                    /\ formData.direction = "long" <=> b.avg_entry > b.stop_loss[1]
               ELSE formData.direction = b.direction

\* The effect has turned a long draft short on avg_entry = stop_loss > 0.
C1_Witness ==
    /\ lastOp.op = "directionEffect"
    /\ formData.avg_entry > 0
    /\ formData.stop_loss = Some(formData.avg_entry)
    /\ DraftBefore.direction = "long"
    /\ formData.direction = "short"

\* --- C2 -----------------------------------------------------------------
\* C2: right after the r_multiple effect has run on a draft with risk present
\* and > 0, r_multiple is realised_win / risk when realised_win is present
\* and > 0 (whatever realised_loss is), otherwise -realised_loss / risk when
\* realised_loss is present and > 0, otherwise null.
C2_RMultipleWithRisk ==
    (lastOp.op = "rMultipleEffect" /\ Positive(DraftBefore.risk)) =>
        LET b == DraftBefore
            r == formData.r_multiple
        IN  IF Positive(b.realised_win)
            THEN r # Null /\ IsQuotient(r[1], b.realised_win[1], b.risk[1])
            ELSE IF Positive(b.realised_loss)
            THEN r # Null /\ IsQuotient(r[1], 0 - b.realised_loss[1], b.risk[1])
            ELSE r = Null

\* The effect has run with risk, win and loss all positive, loss larger than
\* win, and r_multiple is the positive win / risk.
C2_Witness ==
    /\ lastOp.op = "rMultipleEffect"
    /\ Positive(formData.risk) /\ Positive(formData.realised_win)
    /\ Positive(formData.realised_loss)
    /\ formData.realised_loss[1] > formData.realised_win[1]
    /\ formData.r_multiple # Null
    /\ formData.r_multiple[1].n > 0

\* --- C3 -----------------------------------------------------------------
\* C3: right after the r_multiple effect has run on a draft whose risk is
\* null or <= 0, r_multiple is null, whatever realised_win and realised_loss
\* are and whatever r_multiple was before.
C3_RMultipleWithoutRisk ==
    (lastOp.op = "rMultipleEffect" /\ ~Positive(DraftBefore.risk)) =>
        /\ formData.r_multiple = Null
        /\ formData.risk = DraftBefore.risk

\* The effect has cleared an r_multiple on a draft with a positive loss and a
\* risk that is present but not positive.
C3_Witness ==
    /\ lastOp.op = "rMultipleEffect"
    /\ DraftBefore.r_multiple # Null
    /\ formData.risk # Null /\ formData.risk[1] <= 0
    /\ Positive(formData.realised_win)
    /\ formData.r_multiple = Null

\* --- C4 -----------------------------------------------------------------
\* C4 as claimed: after the r_multiple effect, r_multiple is the signed
\* quotient when risk is positive and exactly one of realised_win and
\* realised_loss is positive, and null in every other case, both positive
\* included.
C4_AsClaimed ==
    lastOp.op = "rMultipleEffect" =>
        LET b == DraftBefore
            r == formData.r_multiple
        IN  IF Positive(b.risk) /\ Positive(b.realised_win) /\ ~Positive(b.realised_loss)
            THEN r # Null /\ IsQuotient(r[1], b.realised_win[1], b.risk[1])
            ELSE IF Positive(b.risk) /\ ~Positive(b.realised_win) /\ Positive(b.realised_loss)
            THEN r # Null /\ IsQuotient(r[1], 0 - b.realised_loss[1], b.risk[1])
            ELSE r = Null

\* C4, amended: after the r_multiple effect, r_multiple is null exactly when
\* risk is not positive or neither realised_win nor realised_loss is
\* positive; otherwise it is a quotient over risk, positive and equal to
\* realised_win / risk when realised_win is positive (also when both are),
\* negative and equal to -(realised_loss / risk) when only realised_loss is.
C4_RMultipleInvariant ==
    lastOp.op = "rMultipleEffect" =>
        LET b == DraftBefore
            r == formData.r_multiple
            some == Positive(b.risk) /\ (Positive(b.realised_win) \/ Positive(b.realised_loss))
        IN  /\ r = Null <=> ~some
            /\ some =>
                IF Positive(b.realised_win)
                THEN r[1].n > 0 /\ r[1].n * b.risk[1] = b.realised_win[1] * r[1].d
                ELSE r[1].n < 0 /\ (0 - r[1].n) * b.risk[1] = b.realised_loss[1] * r[1].d

\* The effect has computed a negative r_multiple from a loss alone.
C4_Witness ==
    /\ lastOp.op = "rMultipleEffect"
    /\ Positive(formData.risk) /\ Positive(formData.realised_loss)
    /\ ~Positive(formData.realised_win)
    /\ DraftBefore.r_multiple # formData.r_multiple
    /\ formData.r_multiple # Null
    /\ formData.r_multiple[1].n < 0

\* --- C5 -----------------------------------------------------------------
\* C5: a createTrade call with an empty coin, an avg_entry that is not
\* positive or no trade_date ends in a ValidationError and leaves the table
\* as it was; so the draft the form submits with avg_entry = 0 inserts no row.
C5_CreateRejectsInvalid ==
    lastOp.op = "createTrade" =>
        LET d == lastOp.input[1]
        IN  (d.coin = "" \/ d.avg_entry <= 0 \/ d.trade_date = Null) =>
                (lastOp.error = "ValidationError" /\ store = StoreBefore)

\* --- C6 -----------------------------------------------------------------
\* The ids of the rows of user u.
IdsOf(u) == {i \in DOMAIN store : store[i].user_id = u}

\* C6: getTradeStats(u) returns totalTrades = the number of rows of u,
\* winners = the number of those with realised_win present and > 0, and
\* winRate = winners / totalTrades * 100, which is 0 when u has no rows.
C6_WinRate ==
    (lastOp.op = "getTradeStats" /\ lastOp.ok) =>
        LET mine == IdsOf(lastOp.input[1])
            won == {i \in mine : Positive(store[i].realised_win)}
            got == lastOp.data[1]
        IN  /\ got.totalTrades = Cardinality(mine)
            /\ got.winners = Cardinality(won)
            /\ IF mine = {}
               THEN got.winRate = RatOfInt(0)
               ELSE IsQuotient(got.winRate, 100 * Cardinality(won), Cardinality(mine))

\* Stats were taken over rows with a winner, a loser and a row with neither
\* a win nor a loss, and the rate is below winners / (winners + losers).
C6_Witness ==
    /\ lastOp.op = "getTradeStats" /\ lastOp.ok
    /\ lastOp.data[1].winners = 1 /\ lastOp.data[1].losers = 1
    /\ \E i \in IdsOf(lastOp.input[1]) :
            store[i].realised_win = Null /\ store[i].realised_loss = Null
    /\ lastOp.data[1].winRate.n * 2 < 100 * lastOp.data[1].winRate.d

\* --- C7 -----------------------------------------------------------------
\* The sum of r_multiple over the rows S, as a fraction not reduced.
RECURSIVE SumROver(_)
SumROver(S) ==
    IF S = {} THEN [n |-> 0, d |-> 1]
    ELSE LET i == CHOOSE x \in S : TRUE
             q == store[i].r_multiple[1]
             rest == SumROver(S \ {i})
         IN  [n |-> rest.n * q.d + q.n * rest.d, d |-> rest.d * q.d]

\* C7: getTradeStats(u) returns avgRMultiple = the sum of r_multiple over the
\* rows of u that have one, divided by the number of those rows, and 0 when
\* no row of u has one.
C7_AvgRMultiple ==
    (lastOp.op = "getTradeStats" /\ lastOp.ok) =>
        LET withR == {i \in IdsOf(lastOp.input[1]) : store[i].r_multiple # Null}
            sum == SumROver(withR)
            got == lastOp.data[1].avgRMultiple
        IN  IF withR = {}
            THEN got = RatOfInt(0)
            ELSE IsQuotient(got, sum.n, sum.d * Cardinality(withR))

\* Stats were taken over two rows with an r_multiple and one without, and the
\* mean is not zero.
C7_Witness ==
    /\ lastOp.op = "getTradeStats" /\ lastOp.ok
    /\ Cardinality({i \in IdsOf(lastOp.input[1]) : store[i].r_multiple # Null}) = 2
    /\ \E i \in IdsOf(lastOp.input[1]) : store[i].r_multiple = Null
    /\ lastOp.data[1].avgRMultiple.n # 0

\* --- C8 -----------------------------------------------------------------
\* C8: an updateTrade(id, updates) that returns has set, on the row id, the
\* columns updates names to the values it gives and left every other column
\* of that row (id, user_id, trade_number, created_at, direction, r_multiple
\* among them) and every other row as they were; it returns the row.
C8_UpdateFrame ==
    (lastOp.op = "updateTrade" /\ lastOp.ok) =>
        LET id == lastOp.id
            updates == lastOp.input[1]
        IN  /\ id \in DOMAIN StoreBefore
            /\ DOMAIN store = DOMAIN StoreBefore
            /\ \A i \in DOMAIN store \ {id} : store[i] = StoreBefore[i]
            /\ DOMAIN store[id] = DOMAIN StoreBefore[id]
            /\ \A f \in DOMAIN store[id] :
                   IF f \in DOMAIN updates
                   THEN store[id][f] = updates[f]
                   ELSE store[id][f] = StoreBefore[id][f]
            /\ lastOp.data = Some(store[id])

\* updateTrade(id, {notes}) has changed the notes of a row that has a
\* stop_loss and a risk, with another row in the table.
C8_Witness ==
    /\ lastOp.op = "updateTrade" /\ lastOp.ok
    /\ DOMAIN lastOp.input[1] = {"notes"}
    /\ store[lastOp.id].notes # StoreBefore[lastOp.id].notes
    /\ store[lastOp.id].stop_loss # Null /\ store[lastOp.id].risk # Null
    /\ Cardinality(DOMAIN store) > 1

\* --- C9 -----------------------------------------------------------------
\* C9: getTrade(id) and updateTrade(id, ...) with an id no row has throw (the
\* not-found error of the lookup, or the store's error when the request
\* fails), return no record, and leave the table as it was.
C9_NotFound ==
    (lastOp.op \in {"getTrade", "updateTrade"} /\ lastOp.id \notin DOMAIN StoreBefore) =>
        /\ ~lastOp.ok
        /\ lastOp.error \in {"NotFound", "StoreError"}
        /\ lastOp.data = Null
        /\ store = StoreBefore

\* updateTrade was called with the id of a row that had been deleted, and
\* ended in NotFound.
C9_Witness ==
    /\ lastOp.op = "updateTrade"
    /\ lastOp.id \notin DOMAIN StoreBefore
    /\ lastOp.id < nextId
    /\ lastOp.error = "NotFound"

\* --- C10 ----------------------------------------------------------------
\* C10: a deleteTrade(id) the page makes that returns leaves the table
\* without row id and with every other row as it was, so a second call, or a
\* call on an id that no row has, changes nothing; one that throws leaves the
\* table as it was.  When handleDeleteTrade continues after a call that
\* returned it starts one refresh and shows no message; after a call that
\* threw it shows the message and starts no refresh.  Either way the
\* displayed list, the stats and the page's error are as they were.
C10_DeleteIdempotent ==
    /\ lastOp.op = "deleteTrade" =>
        LET b == lastOp.before[1]
        IN  IF lastOp.ok
            THEN /\ lastOp.id \notin DOMAIN store
                 /\ DOMAIN store = DOMAIN b.store \ {lastOp.id}
                 /\ \A i \in DOMAIN store : store[i] = b.store[i]
                 /\ lastOp.id \notin DOMAIN b.store => store = b.store
            ELSE store = b.store
    /\ lastOp.op = "handleDeleteSettle" =>
        LET b == lastOp.before[1]
        IN  /\ trades = b.trades /\ stats = b.stats /\ pageError = b.pageError
            /\ store = b.store
            /\ IF lastOp.ok
               THEN /\ started = b.started + 1
                    /\ \E r \in inflight : r.n = started /\ r.t = Null /\ r.s = Null
                    /\ alertMsg = b.alertMsg
               ELSE /\ alertMsg = Some(lastOp.error)
                    /\ started = b.started
                    /\ \A r \in inflight : r.n <= b.started

\* The table has executed a second delete of a row, sent from a list not yet
\* refreshed, with another row still in the table, and the page has already
\* started the refresh of the first.
C10_Witness ==
    /\ lastOp.op = "deleteTrade" /\ lastOp.ok
    /\ lastOp.id \notin DOMAIN StoreBefore
    /\ \E k \in 1..Len(trades) : trades[k].id = lastOp.id
    /\ store # <<>>
    /\ started = 1

\* --- C11 ----------------------------------------------------------------
\* A record whose derived fields agree with its own inputs: direction is long
\* when avg_entry > stop_loss and short otherwise, whenever both are positive;
\* r_multiple is realised_win / risk, else -realised_loss / risk, else null.
DerivedConsistent(rec) ==
    /\ (rec.avg_entry > 0 /\ Positive(rec.stop_loss)) =>
           rec.direction = (IF rec.avg_entry > rec.stop_loss[1] THEN "long" ELSE "short")
    /\ IF Positive(rec.risk) /\ Positive(rec.realised_win)
       THEN /\ rec.r_multiple # Null
            /\ IsQuotient(rec.r_multiple[1], rec.realised_win[1], rec.risk[1])
       ELSE IF Positive(rec.risk) /\ Positive(rec.realised_loss)
       THEN /\ rec.r_multiple # Null
            /\ IsQuotient(rec.r_multiple[1], 0 - rec.realised_loss[1], rec.risk[1])
       ELSE rec.r_multiple = Null

\* C11: the record handleSubmit passes to createTrade or updateTrade, after any
\* sequence of field edits in create or edit mode, has direction and
\* r_multiple derived from its own avg_entry, stop_loss, risk, realised_win
\* and realised_loss; and so has the draft of the open form whenever no effect
\* is waiting to run.
C11_NoStaleDerived ==
    /\ lastOp.op \in {"createTrade", "updateTrade"} => DerivedConsistent(lastOp.input[1])
    /\ (formData # Null /\ pending = {}) => DerivedConsistent(formData)

\* An edited trade was submitted after an edit of stop_loss that turned its
\* direction, and the row was stored with the new direction.
C11_Witness ==
    /\ lastOp.op = "updateTrade" /\ lastOp.ok
    /\ edits > 0
    /\ lastOp.input[1].stop_loss # StoreBefore[lastOp.id].stop_loss
    /\ lastOp.input[1].direction # StoreBefore[lastOp.id].direction
    /\ store[lastOp.id].direction = lastOp.input[1].direction

\* --- C12 ----------------------------------------------------------------
\* C12: while a submit is awaiting its store call, loading is true and the
\* error is null.  When handleSubmit continues after a call that threw, the
\* form's error is set to that failure, the modal is open, no refresh was
\* started and loading is false; after a call that returned, a refresh was
\* started (onSuccess), the modal is closed (onClose) and the error is null.
C12_SubmitOutcome ==
    /\ lastOp.op = "handleSubmit" => (loading /\ formError = Null)
    /\ lastOp.op = "handleSubmitSettle" =>
        LET b == lastOp.before[1]
        IN  /\ ~loading
            /\ IF lastOp.ok
               THEN /\ ~isModalOpen
                    /\ started = b.started + 1
                    /\ \E r \in inflight : r.n = started
                    /\ formError = Null
               ELSE /\ formError = Some(lastOp.error)
                    /\ isModalOpen
                    /\ started = b.started
                    /\ \A r \in inflight : r.n <= b.started

\* --- C13 ----------------------------------------------------------------
\* The effects that were waiting when the last step began.
PendingBefore == lastOp.before[1].pending

\* C13: a run of the direction effect changes no field but direction, a run
\* of the r_multiple effect no field but r_multiple, and the render that
\* follows schedules no effect again: the effects still waiting are those
\* that waited before, less the one that ran, so after a field edit each
\* effect runs at most once.  On the settled draft (no effect waiting) each
\* derivation returns the draft unchanged.
C13_FixedPoint ==
    /\ lastOp.op = "directionEffect" =>
        /\ pending = PendingBefore \ {"direction"}
        /\ \A f \in DOMAIN formData \ {"direction"} : formData[f] = DraftBefore[f]
    /\ lastOp.op = "rMultipleEffect" =>
        /\ pending = PendingBefore \ {"r_multiple"}
        /\ pending = {}
        /\ \A f \in DOMAIN formData \ {"r_multiple"} : formData[f] = DraftBefore[f]
    /\ (formData # Null /\ pending = {}) =>
        /\ directionEffect(formData, formData) = formData
        /\ rMultipleEffect(formData, formData) = formData

\* After a field edit the r_multiple effect has replaced r_multiple, and no
\* effect is waiting.
C13_Witness ==
    /\ lastOp.op = "rMultipleEffect"
    /\ edits > 0
    /\ formData.r_multiple # DraftBefore.r_multiple
    /\ pending = {}

\* --- C14 ----------------------------------------------------------------
\* C14: once every refreshData call that was started has completed without an
\* error and no save or delete is awaited, the displayed list and stats are
\* those the most recently started call read, and no displayed trade is
\* absent from the table.  A handler starts its refresh after its write, so
\* the most recently started call was started after every write and read the
\* table as it is now.
C14_LatestRefreshWins ==
    (started > 0 /\ inflight = {} /\ saves = {} /\ deletes = {} /\ pageError = Null) =>
        /\ trades = getTrades(User, FALSE).data[1]
        /\ stats = getTradeStats(User, FALSE).data
        /\ \A k \in 1..Len(trades) : trades[k].id \in DOMAIN store

====
